---- MODULE Spec2Model ----
(***************************************************************************)
(* Model of cmd/threadsd/main.go: the daemon's startup sequence, its two   *)
(* background serve goroutines, the interrupt handler and the ordered      *)
(* shutdown closure.                                                       *)
(*                                                                         *)
(* The main goroutine is a program counter `pc` walking the statements of  *)
(* main() and handleInterrupt(); every call that can return an error takes *)
(* its outcome from the environment (\E ok \in BOOLEAN).  A blocking call  *)
(* of the shutdown closure is two steps, the call and its return.          *)
(***************************************************************************)
EXTENDS Integers, Sequences, FiniteSets, TLC

VARIABLES
    cfg,            \* the parsed flags (lines 36-57), fixed after fs.Parse
    pc,             \* position of the main goroutine
    badgerRepo,     \* current value of *badgerRepo
    parsedMongoUri, \* "nil" or "url" (line 76)
    host,           \* the Network Host n: "none", "open", "closed"
    netPersistence, \* persistence option handed to common.DefaultNetwork
    store,          \* the event store handed to api.NewService
    nCloseCalls,    \* number of calls of n.Close()
    listener,       \* the RPC net.Listener: "none", "listening", "closed"
    server,         \* the grpc.Server
    wrapSeen,       \* what grpcweb.WrapServer found when it wrapped the server
    proxy,          \* the bridge http.Server
    gw,             \* the gateway: "none", "created", "started", "closed"
    rpcPc,          \* position of the goroutine of lines 180-186
    rpcErr,         \* what server.Serve returned
    proxyPc,        \* position of the goroutine of lines 207-211
    proxyErr,       \* what proxy.ListenAndServe returned
    notified,       \* signal.Notify(quit, os.Interrupt) is in effect
    sigCount,       \* interrupts sent to the process so far
    received,       \* <-quit has returned
    lateSigs,       \* interrupts sent after <-quit returned
    closeOp,        \* progress of the four close operations of the closure
    exited,         \* the process is gone
    exitCode,       \* its exit status (NoExit while running)
    exitCause,      \* which statement ended it
    deferredRan,    \* the deferred calls of main that ran when it ended
    handles,        \* the two storage backends: "none", "open", "closed"
    created,        \* the entities constructed so far, in order
    req,            \* the request in the bridge handler (NoReq when none)
    routed          \* whether the handler passed req to webrpc.ServeHTTP

vars == <<cfg, pc, badgerRepo, parsedMongoUri, host, netPersistence, store,
          nCloseCalls, listener, server, wrapSeen, proxy, gw, rpcPc, rpcErr,
          proxyPc, proxyErr, notified, sigCount, received, lateSigs, closeOp,
          exited, exitCode, exitCause, deferredRan, handles, created, req,
          routed>>

\* Groups used in UNCHANGED clauses.
cfgVars    == <<cfg, badgerRepo, parsedMongoUri>>
hostVars   == <<host, netPersistence, nCloseCalls>>
rpcVars    == <<listener, server, rpcPc, rpcErr>>
proxyVars  == <<proxy, proxyPc, proxyErr>>
sigVars    == <<notified, sigCount, received, lateSigs>>
exitVars   == <<exited, exitCode, exitCause, deferredRan>>
lifeVars   == <<handles, created>>
reqVars    == <<req, routed>>

----------------------------------------------------------------------------
\* Bounds.

\* Interrupt signals the environment may send in one run.
MaxSignals == 2

----------------------------------------------------------------------------
\* Values.

NoExit == 0 - 1

\* Exit status of a process killed by the default disposition of SIGINT
\* (128 + signal number), used when no handler is registered yet.
SigintStatus == 128 + 2

\* log.Fatal / log.Fatalf log and call os.Exit(1).
LogFatalExitCode == 1

\* os.Exit(1), the last statement of handleInterrupt.
HandleInterruptExitCodeZero == 1 - 1
HandleInterruptExitCode == 1

\* An address flag: "bad" does not parse as a multiaddr, "notcp" parses but
\* has no TCP form, "tcp" is a usable TCP multiaddr.
AddrKinds == {"bad", "notcp", "tcp"}

\* Strings the code measures or expands are sequences of tokens; a token
\* is a literal piece or a ${VAR} reference.
VarTokens == {"${HOME}", "${UNSET}"}

\* The environment: value of a variable reference (unset expands to "").
Getenv(tok) == IF tok = "${HOME}" THEN "/root" ELSE ""

\* os.ExpandEnv: every ${VAR} is replaced by the variable's value.
ExpandEnv(s) ==
    [i \in 1..Len(s) |-> IF s[i] \in VarTokens THEN Getenv(s[i]) ELSE s[i]]

BadgerRepos == {<<"${HOME}", "/.threads">>, <<"/data/threads">>,
                <<"${UNSET}", "/t">>}

\* mongoUri values: empty, a well-formed URI, one url.Parse rejects.
MongoUris == {<<>>, <<"mongodb://u:p@h">>, <<"%zz">>}
MongoDatabases == {"", "threads"}

\* url.Parse: an error for the malformed URI.
UrlParseFails(uri) == uri = <<"%zz">>

Configs == [hostAddr: {"bad", "tcp"}, apiAddr: AddrKinds,
            apiProxyAddr: AddrKinds, mongoUri: MongoUris,
            mongoDatabase: MongoDatabases, badgerRepo: BadgerRepos]

NoBackend == [kind |-> "none", loc |-> <<>>, db |-> ""]

\* Errors a serve loop can return.
ServeErrs == {"nil", "ErrServerStopped", "ErrServerClosed", "other"}
NoErr == "none"

CloseOps == {"gw", "proxy", "rpc", "host"}

NoReq == [method |-> "-", grpcWebContentType |-> FALSE, acrhGrpcWeb |-> FALSE,
          registeredEndpoint |-> FALSE, upgradeWebsocket |-> FALSE,
          grpcWebsocketsProto |-> FALSE]

----------------------------------------------------------------------------
\* Process exit.

\* The calls main has deferred where the process stands: n.Close (line
\* 139) and cancel (line 143), both registered once the host exists and
\* before anything after line 143 can end the process.
Deferred == IF host # "none" THEN {"n.Close", "cancel"} ELSE {}

\* The deferred calls that run when the process ends by os.Exit, directly
\* (line 244) or inside log.Fatal: none, os.Exit does not unwind main.
DeferredCallsRunAll(deferred) == deferred

DeferredCallsRun(deferred) == {}

\* log.Fatal(err): the process exits with status 1 where it stands.
Fatal(cause) ==
    /\ exited' = TRUE
    /\ exitCode' = LogFatalExitCode
    /\ exitCause' = cause
    /\ deferredRan' = DeferredCallsRun(Deferred)

Running == ~exited

----------------------------------------------------------------------------
Init ==
    /\ cfg \in Configs
    /\ pc = "parse"
    /\ badgerRepo = cfg.badgerRepo
    /\ parsedMongoUri = "nil"
    /\ host = "none"
    /\ netPersistence = NoBackend
    /\ store = NoBackend
    /\ nCloseCalls = 0
    /\ listener = "none"
    /\ server = [created |-> FALSE, registered |-> {}, serve |-> FALSE,
                 stopped |-> FALSE]
    /\ wrapSeen = [wrapped |-> FALSE, registered |-> {}, serve |-> FALSE]
    /\ proxy = [created |-> FALSE, listener |-> "none", shutdown |-> FALSE]
    /\ gw = "none"
    /\ rpcPc = "none"
    /\ rpcErr = NoErr
    /\ proxyPc = "none"
    /\ proxyErr = NoErr
    /\ notified = FALSE
    /\ sigCount = 0
    /\ received = FALSE
    /\ lateSigs = 0
    /\ closeOp = [o \in CloseOps |-> "idle"]
    /\ exited = FALSE
    /\ exitCode = NoExit
    /\ exitCause = "none"
    /\ deferredRan = {}
    /\ handles = [net |-> "none", event |-> "none"]
    /\ created = <<>>
    /\ req = NoReq
    /\ routed = FALSE

----------------------------------------------------------------------------
\* Startup, lines 59-122: configuration.

\* A main-goroutine step that either fails fatally or moves on.
\* (cause names the fatal; the caller states what else changes.)
Advance(ok, next, cause) ==
    IF ok THEN /\ pc' = next
               /\ UNCHANGED exitVars
          ELSE /\ pc' = pc
               /\ Fatal(cause)

\* fs.Parse(os.Args[1:]).
ParseFlags ==
    /\ Running /\ pc = "parse"
    /\ \E ok \in BOOLEAN : Advance(ok, "hostAddr", "parse")
    /\ UNCHANGED <<cfgVars, hostVars, store, rpcVars, wrapSeen, proxyVars, gw,
                   sigVars, closeOp, reqVars,
                   lifeVars>>

\* ma.NewMultiaddr succeeds on everything that is a multiaddr.
NewMultiaddrAcceptsAll(a) == TRUE

NewMultiaddrOk(a) == a # "bad"

ParseHostAddr ==
    /\ Running /\ pc = "hostAddr"
    /\ Advance(NewMultiaddrOk(cfg.hostAddr), "apiAddr", "hostAddr")
    /\ UNCHANGED <<cfgVars, hostVars, store, rpcVars, wrapSeen, proxyVars, gw,
                   sigVars, closeOp, reqVars,
                   lifeVars>>

ParseApiAddr ==
    /\ Running /\ pc = "apiAddr"
    /\ Advance(NewMultiaddrOk(cfg.apiAddr), "apiProxyAddr", "apiAddr")
    /\ UNCHANGED <<cfgVars, hostVars, store, rpcVars, wrapSeen, proxyVars, gw,
                   sigVars, closeOp, reqVars,
                   lifeVars>>

ParseApiProxyAddr ==
    /\ Running /\ pc = "apiProxyAddr"
    /\ Advance(NewMultiaddrOk(cfg.apiProxyAddr), "mongo", "apiProxyAddr")
    /\ UNCHANGED <<cfgVars, hostVars, store, rpcVars, wrapSeen, proxyVars, gw,
                   sigVars, closeOp, reqVars,
                   lifeVars>>

\* Lines 77-85: which fatal, if any, the mongo options raise.
MongoConfigFatalNoDbCheck(uri, db) ==
    IF Len(uri) # 0 /\ UrlParseFails(uri) THEN "parsing mongoUri" ELSE "none"

MongoConfigFatal(uri, db) ==
    IF Len(uri) # 0
    THEN IF UrlParseFails(uri) THEN "parsing mongoUri"
         ELSE IF db = "" THEN "mongoDatabase is required with mongoUri"
         ELSE "none"
    ELSE "none"

CheckMongo ==
    /\ Running /\ pc = "mongo"
    /\ LET f == MongoConfigFatal(cfg.mongoUri, cfg.mongoDatabase) IN
       /\ Advance(f = "none", "logging", f)
       /\ parsedMongoUri' =
            IF Len(cfg.mongoUri) # 0 /\ ~UrlParseFails(cfg.mongoUri)
            THEN "url" ELSE "nil"
    /\ UNCHANGED <<cfg, badgerRepo, hostVars, store, rpcVars, wrapSeen,
                   proxyVars, gw, sigVars, closeOp, reqVars,
                   lifeVars>>

\* Lines 87-99: util.SetupDefaultLoggingConfig and util.SetLogLevels.
SetupLogging ==
    /\ Running /\ pc = "logging"
    /\ \E ok \in BOOLEAN : Advance(ok, "expand", "logging")
    /\ UNCHANGED <<cfgVars, hostVars, store, rpcVars, wrapSeen, proxyVars, gw,
                   sigVars, closeOp, reqVars,
                   lifeVars>>

\* Lines 112-118: the value of *badgerRepo after the branch.
BadgerRepoNotExpanded(parsed, repo) == repo

BadgerRepoAfterExpand(parsed, repo) ==
    IF parsed = "nil" THEN ExpandEnv(repo) ELSE repo

ExpandBadgerRepo ==
    /\ Running /\ pc = "expand"
    /\ badgerRepo' = BadgerRepoAfterExpand(parsedMongoUri, badgerRepo)
    /\ pc' = "network"
    /\ UNCHANGED <<cfg, parsedMongoUri, hostVars, store, rpcVars, wrapSeen,
                   proxyVars, gw, sigVars, closeOp, exitVars, reqVars,
                   lifeVars>>

----------------------------------------------------------------------------
\* Startup, lines 124-164: network host, event store, services.

\* Lines 130-134: the persistence option appended for the Network Host.
NetPersistenceAlwaysBadger(parsed, uri, db, repo) ==
    [kind |-> "badger", loc |-> repo, db |-> ""]

NetPersistenceChoice(parsed, uri, db, repo) ==
    IF parsed # "nil"
    THEN [kind |-> "mongo", loc |-> uri, db |-> db]
    ELSE [kind |-> "badger", loc |-> repo, db |-> ""]

\* Lines 135-140: common.DefaultNetwork, defer n.Close(), n.Bootstrap.
\* DefaultNetwork fails when its persistence backend or the host cannot be
\* built; no host exists then.  On success the host holds its own
\* persistence backend, opened by DefaultNetwork from the option.
ConstructNetwork ==
    /\ Running /\ pc = "network"
    /\ \E out \in {"ok", "persistence", "host"} :
         /\ Advance(out = "ok", "store",
                    IF out = "persistence" THEN "network persistence"
                                           ELSE "network host")
         /\ host' = IF out = "ok" THEN "open" ELSE host
         /\ netPersistence' =
              IF out = "ok"
              THEN NetPersistenceChoice(parsedMongoUri, cfg.mongoUri,
                                        cfg.mongoDatabase, badgerRepo)
              ELSE netPersistence
         /\ handles' = IF out = "ok" THEN [handles EXCEPT !.net = "open"]
                                     ELSE handles
         /\ created' = IF out = "ok" THEN Append(created, "host")
                                     ELSE created
    /\ UNCHANGED <<cfgVars, nCloseCalls, store, rpcVars, wrapSeen, proxyVars,
                   gw, sigVars, closeOp, reqVars>>

\* Lines 145-149: the event store that is constructed.
EventStoreChoice(uri, db, repo) ==
    IF uri # <<>>
    THEN [kind |-> "mongo", loc |-> uri, db |-> db]
    ELSE [kind |-> "badger", loc |-> repo, db |-> ""]

\* Lines 142-152: mongods.New or util.NewBadgerDatastore; fatal on error.
ConstructStore ==
    /\ Running /\ pc = "store"
    /\ \E ok \in BOOLEAN :
         /\ Advance(ok, "service", "event store")
         /\ store' = IF ok THEN EventStoreChoice(cfg.mongoUri,
                                                 cfg.mongoDatabase, badgerRepo)
                           ELSE store
         /\ handles' = IF ok THEN [handles EXCEPT !.event = "open"]
                             ELSE handles
         /\ created' = IF ok THEN Append(created, "store") ELSE created
    /\ UNCHANGED <<cfgVars, hostVars, rpcVars, wrapSeen, proxyVars, gw,
                   sigVars, closeOp, reqVars>>

\* Lines 153-158: api.NewService.
NewService ==
    /\ Running /\ pc = "service"
    /\ \E ok \in BOOLEAN : Advance(ok, "netService", "api.NewService")
    /\ UNCHANGED <<cfgVars, hostVars, store, rpcVars, wrapSeen, proxyVars, gw,
                   sigVars, closeOp, reqVars,
                   lifeVars>>

\* Lines 159-164: netapi.NewService.
NewNetService ==
    /\ Running /\ pc = "netService"
    /\ \E ok \in BOOLEAN : Advance(ok, "target", "netapi.NewService")
    /\ UNCHANGED <<cfgVars, hostVars, store, rpcVars, wrapSeen, proxyVars, gw,
                   sigVars, closeOp, reqVars,
                   lifeVars>>

----------------------------------------------------------------------------
\* Startup, lines 166-220: listeners.

\* util.TCPAddrFromMultiAddr: an error unless the multiaddr has a TCP form.
TCPAddrFromMultiAddrOk(a) == a = "tcp"

ResolveTarget ==
    /\ Running /\ pc = "target"
    /\ Advance(TCPAddrFromMultiAddrOk(cfg.apiAddr), "ptarget", "target")
    /\ UNCHANGED <<cfgVars, hostVars, store, rpcVars, wrapSeen, proxyVars, gw,
                   sigVars, closeOp, reqVars,
                   lifeVars>>

ResolvePTarget ==
    /\ Running /\ pc = "ptarget"
    /\ Advance(TCPAddrFromMultiAddrOk(cfg.apiProxyAddr), "listen", "ptarget")
    /\ UNCHANGED <<cfgVars, hostVars, store, rpcVars, wrapSeen, proxyVars, gw,
                   sigVars, closeOp, reqVars,
                   lifeVars>>

\* Lines 175-179: grpc.NewServer and net.Listen("tcp", target), which binds
\* and listens before it returns.
ListenRpc ==
    /\ Running /\ pc = "listen"
    /\ server' = [server EXCEPT !.created = TRUE]
    /\ created' = Append(created, "rpc")
    /\ \E ok \in BOOLEAN :
         /\ Advance(ok, "goRpc", "net.Listen")
         /\ listener' = IF ok THEN "listening" ELSE listener
    /\ UNCHANGED <<cfgVars, hostVars, store, rpcPc, rpcErr, wrapSeen,
                   proxyVars, gw, sigVars, closeOp, handles, reqVars>>

\* Line 180: the go statement; the goroutine has run nothing yet.
GoRpc ==
    /\ Running /\ pc = "goRpc"
    /\ rpcPc' = "register1"
    /\ pc' = "wrap"
    /\ UNCHANGED <<cfgVars, hostVars, store, listener, server, rpcErr,
                   wrapSeen, proxyVars, gw, sigVars, closeOp, exitVars,
                   reqVars,
                   lifeVars>>

\* Lines 187-196: grpcweb.WrapServer on the main goroutine.
WrapServer ==
    /\ Running /\ pc = "wrap"
    /\ wrapSeen' = [wrapped |-> TRUE, registered |-> server.registered,
                    serve |-> server.serve]
    /\ pc' = "goProxy"
    /\ UNCHANGED <<cfgVars, hostVars, store, rpcVars, proxyVars, gw, sigVars,
                   closeOp, exitVars, reqVars,
                   lifeVars>>

\* Lines 197-211: the http.Server, its handler, and the go statement. The
\* go statement returns at once: nothing is bound yet.
GoProxy ==
    /\ Running /\ pc = "goProxy"
    /\ proxy' = [proxy EXCEPT !.created = TRUE]
    /\ created' = Append(created, "bridge")
    /\ proxyPc' = "start"
    /\ pc' = "gateway"
    /\ UNCHANGED <<cfgVars, hostVars, store, rpcVars, wrapSeen, proxyErr, gw,
                   sigVars, closeOp, exitVars, handles, reqVars>>

\* Lines 213-216: gateway.NewGateway.
NewGateway ==
    /\ Running /\ pc = "gateway"
    /\ \E ok \in BOOLEAN :
         /\ Advance(ok, "gwStart", "gateway.NewGateway")
         /\ gw' = IF ok THEN "created" ELSE gw
         /\ created' = IF ok THEN Append(created, "gateway") ELSE created
    /\ UNCHANGED <<cfgVars, hostVars, store, rpcVars, wrapSeen, proxyVars,
                   sigVars, closeOp, handles, reqVars>>

\* Line 217: the gateway after gw.Start().
GwStartOmitted(g) == g

GwAfterStart(g) == "started"

\* Lines 217-220: gw.Start() and the two welcome lines.
GatewayStart ==
    /\ Running /\ pc = "gwStart"
    /\ gw' = GwAfterStart(gw)
    /\ pc' = "notify"
    /\ UNCHANGED <<cfgVars, hostVars, store, rpcVars, wrapSeen, proxyVars,
                   sigVars, closeOp, exitVars, reqVars,
                   lifeVars>>

----------------------------------------------------------------------------
\* The goroutine of lines 180-186.

\* Line 181: pb.RegisterAPIServiceServer.
RpcRegisterApi ==
    /\ Running /\ rpcPc = "register1"
    /\ server' = [server EXCEPT !.registered = @ \cup {"api"}]
    /\ rpcPc' = "register2"
    /\ UNCHANGED <<cfgVars, pc, hostVars, store, listener, rpcErr, wrapSeen,
                   proxyVars, gw, sigVars, closeOp, exitVars, reqVars,
                   lifeVars>>

\* Line 182: netpb.RegisterAPIServiceServer.
RpcRegisterNetOmitted ==
    /\ Running /\ rpcPc = "register2"
    /\ rpcPc' = "serve"
    /\ UNCHANGED <<cfgVars, pc, hostVars, store, listener, server, rpcErr,
                   wrapSeen, proxyVars, gw, sigVars, closeOp, exitVars,
                   reqVars, lifeVars>>

RpcRegisterNet ==
    /\ Running /\ rpcPc = "register2"
    /\ server' = [server EXCEPT !.registered = @ \cup {"net"}]
    /\ rpcPc' = "serve"
    /\ UNCHANGED <<cfgVars, pc, hostVars, store, listener, rpcErr, wrapSeen,
                   proxyVars, gw, sigVars, closeOp, exitVars, reqVars,
                   lifeVars>>

\* Line 183, the call: server.Serve enters its accept loop unless the
\* server was stopped before.
RpcServeEnter ==
    /\ Running /\ rpcPc = "serve" /\ ~server.stopped
    /\ server' = [server EXCEPT !.serve = TRUE]
    /\ rpcPc' = "serving"
    /\ UNCHANGED <<cfgVars, pc, hostVars, store, listener, rpcErr, wrapSeen,
                   proxyVars, gw, sigVars, closeOp, exitVars, reqVars,
                   lifeVars>>

\* What server.Serve can return where the goroutine stands: ErrServerStopped
\* when called on a stopped server, nil when stopped while serving, any
\* other error when the accept loop breaks on its own.
RpcServeResults ==
    IF rpcPc = "serve"
    THEN IF server.stopped THEN {"ErrServerStopped"} ELSE {}
    ELSE IF rpcPc = "serving"
    THEN IF server.stopped THEN {"nil"} ELSE {"other"}
    ELSE {}

\* Line 183, the condition under which the return value is fatal.
RpcServeFatalAnyError(err) == err # "nil"

RpcServeFatal(err) == err # "nil" /\ err # "ErrServerStopped"

\* Lines 183-185: Serve returns; log.Fatalf or the goroutine ends.
RpcServeReturn ==
    /\ Running
    /\ \E err \in RpcServeResults :
         /\ rpcErr' = err
         /\ IF RpcServeFatal(err)
            THEN /\ Fatal("serve error")
                 /\ rpcPc' = rpcPc
            ELSE /\ rpcPc' = "done"
                 /\ UNCHANGED exitVars
    /\ UNCHANGED <<cfgVars, pc, hostVars, store, listener, server, wrapSeen,
                   proxyVars, gw, sigVars, closeOp, reqVars,
                   lifeVars>>

----------------------------------------------------------------------------
\* The goroutine of lines 207-211.

\* Line 208, the call: proxy.ListenAndServe binds the bridge address and
\* enters its accept loop, unless the server was shut down before.
ProxyListen ==
    /\ Running /\ proxyPc = "start" /\ ~proxy.shutdown
    /\ proxy' = [proxy EXCEPT !.listener = "listening"]
    /\ proxyPc' = "serving"
    /\ UNCHANGED <<cfgVars, pc, hostVars, store, rpcVars, wrapSeen, proxyErr,
                   gw, sigVars, closeOp, exitVars, reqVars,
                   lifeVars>>

\* What proxy.ListenAndServe can return where the goroutine stands:
\* ErrServerClosed once Shutdown was called, another error when the bind
\* fails or the accept loop breaks on its own.  It never returns nil.
ProxyServeResults ==
    IF proxyPc \in {"start", "serving"}
    THEN IF proxy.shutdown THEN {"ErrServerClosed"} ELSE {"other"}
    ELSE {}

\* Line 208, the condition under which the return value is fatal.
ProxyServeFatal(err) == err # "nil" /\ err # "ErrServerClosed"

\* Lines 208-210: ListenAndServe returns; log.Fatalf or the goroutine ends.
ProxyServeReturn ==
    /\ Running
    /\ \E err \in ProxyServeResults :
         /\ proxyErr' = err
         /\ IF ProxyServeFatal(err)
            THEN /\ Fatal("proxy error")
                 /\ proxyPc' = proxyPc
            ELSE /\ proxyPc' = "done"
                 /\ UNCHANGED exitVars
    /\ UNCHANGED <<cfgVars, pc, hostVars, store, rpcVars, wrapSeen, proxy, gw,
                   sigVars, closeOp, reqVars,
                   lifeVars>>

----------------------------------------------------------------------------
\* handleInterrupt, lines 238-245, and the delivery of interrupts.

\* Lines 222, 239-240: the closure is built, quit is made (unbuffered) and
\* signal.Notify registers it for os.Interrupt.
Notify ==
    /\ Running /\ pc = "notify"
    /\ notified' = TRUE
    /\ pc' = "recv"
    /\ UNCHANGED <<cfgVars, hostVars, store, rpcVars, wrapSeen, proxyVars, gw,
                   sigCount, received, lateSigs, closeOp, exitVars, reqVars,
                   lifeVars>>

\* Line 241: the main goroutine parks in the receive on quit.
BlockOnQuit ==
    /\ Running /\ pc = "recv"
    /\ pc' = "parked"
    /\ UNCHANGED <<cfgVars, hostVars, store, rpcVars, wrapSeen, proxyVars, gw,
                   sigVars, closeOp, exitVars, reqVars,
                   lifeVars>>

\* An interrupt while no handler is registered: the default disposition
\* kills the process.
InterruptDefaultStartsShutdown ==
    /\ Running /\ sigCount < MaxSignals /\ ~notified
    /\ sigCount' = sigCount + 1
    /\ received' = TRUE
    /\ pc' = "print"
    /\ UNCHANGED <<cfgVars, hostVars, store, rpcVars, wrapSeen, proxyVars, gw,
                   notified, lateSigs, closeOp, exitVars, reqVars, lifeVars>>

InterruptDefault ==
    /\ Running /\ sigCount < MaxSignals /\ ~notified
    /\ sigCount' = sigCount + 1
    /\ exited' = TRUE
    /\ exitCode' = SigintStatus
    /\ exitCause' = "sigint"
    /\ deferredRan' = {}
    /\ UNCHANGED <<cfgVars, pc, hostVars, store, rpcVars, wrapSeen, proxyVars,
                   gw, notified, received, lateSigs, closeOp, reqVars,
                   lifeVars>>

\* What an interrupt does to the process once signal.Notify is in effect
\* and the main goroutine is not parked in <-quit: the os/signal package
\* sends on the channel without blocking, so with no receiver the signal is
\* dropped ("ignored"); it never falls back to the default disposition,
\* because Notify is undone only by signal.Stop or signal.Reset, which the
\* program never calls.
UnreceivedInterrupt == "ignored"

\* An interrupt while the handler is registered and the main goroutine is
\* parked in <-quit: the receive returns (line 241).
InterruptReceived ==
    /\ Running /\ sigCount < MaxSignals /\ notified /\ pc = "parked"
    /\ sigCount' = sigCount + 1
    /\ received' = TRUE
    /\ pc' = "print"
    /\ UNCHANGED <<cfgVars, hostVars, store, rpcVars, wrapSeen, proxyVars, gw,
                   notified, lateSigs, closeOp, exitVars, reqVars,
                   lifeVars>>

\* An interrupt while the handler is registered and nobody receives.
InterruptUnreceived ==
    /\ Running /\ sigCount < MaxSignals /\ notified /\ pc # "parked"
    /\ sigCount' = sigCount + 1
    /\ lateSigs' = IF received THEN lateSigs + 1 ELSE lateSigs
    /\ IF UnreceivedInterrupt = "killed"
       THEN /\ exited' = TRUE
            /\ exitCode' = SigintStatus
            /\ exitCause' = "sigint"
            /\ deferredRan' = {}
       ELSE UNCHANGED exitVars
    /\ UNCHANGED <<cfgVars, pc, hostVars, store, rpcVars, wrapSeen, proxyVars,
                   gw, notified, received, closeOp, reqVars,
                   lifeVars>>

\* Line 242-243: the notice is printed and stop() is entered.
PrintStopping ==
    /\ Running /\ pc = "print"
    /\ pc' = "gwClose"
    /\ UNCHANGED <<cfgVars, hostVars, store, rpcVars, wrapSeen, proxyVars, gw,
                   sigVars, closeOp, exitVars, reqVars,
                   lifeVars>>

----------------------------------------------------------------------------
\* The shutdown closure, lines 222-235.

\* The statement the closure runs after close operation o has returned
\* without error: the order of lines 223, 228, 231, 232.
AfterCloseSwapped(o) ==
    CASE o = "gw"    -> "gracefulStop"
      [] o = "rpc"   -> "proxyShutdown"
      [] o = "proxy" -> "nClose"
      [] o = "host"  -> "osExit"

AfterClose(o) ==
    CASE o = "gw"    -> "proxyShutdown"
      [] o = "proxy" -> "gracefulStop"
      [] o = "rpc"   -> "nClose"
      [] o = "host"  -> "osExit"

\* Line 223, the call of gw.Close().
GwCloseCall ==
    /\ Running /\ pc = "gwClose"
    /\ closeOp' = [closeOp EXCEPT !["gw"] = "running"]
    /\ pc' = "gwClosing"
    /\ UNCHANGED <<cfgVars, hostVars, store, rpcVars, wrapSeen, proxyVars, gw,
                   sigVars, exitVars, reqVars,
                   lifeVars>>

\* Lines 223-225: whether what gw.Close() returned is fatal.
GwCloseErrorIgnored(ok) == FALSE

GwCloseFatal(ok) == ~ok

\* Lines 223-225: gw.Close() returns; an error is fatal.
GwCloseReturn ==
    /\ Running /\ pc = "gwClosing"
    /\ closeOp' = [closeOp EXCEPT !["gw"] = "done"]
    /\ \E ok \in BOOLEAN :
         /\ Advance(~GwCloseFatal(ok), AfterClose("gw"), "gw.Close")
         /\ gw' = IF ok THEN "closed" ELSE gw
    /\ UNCHANGED <<cfgVars, hostVars, store, rpcVars, wrapSeen, proxyVars,
                   sigVars, reqVars,
                   lifeVars>>

\* Lines 226-228, the call of proxy.Shutdown(ctx): the server is marked as
\* shutting down and its listener is closed.
ProxyShutdownCall ==
    /\ Running /\ pc = "proxyShutdown"
    /\ closeOp' = [closeOp EXCEPT !["proxy"] = "running"]
    /\ proxy' = [proxy EXCEPT !.shutdown = TRUE,
                              !.listener = IF @ = "listening" THEN "closed"
                                           ELSE @]
    /\ pc' = "proxyShuttingDown"
    /\ UNCHANGED <<cfgVars, hostVars, store, rpcVars, wrapSeen, proxyPc,
                   proxyErr, gw, sigVars, exitVars, reqVars,
                   lifeVars>>

\* Lines 228-230: proxy.Shutdown returns nil, or the context's error when
\* the one-second deadline passed first; an error is fatal.
ProxyShutdownReturn ==
    /\ Running /\ pc = "proxyShuttingDown"
    /\ closeOp' = [closeOp EXCEPT !["proxy"] = "done"]
    /\ \E err \in {"nil", "DeadlineExceeded"} :
         Advance(err = "nil", AfterClose("proxy"), "proxy.Shutdown")
    /\ UNCHANGED <<cfgVars, hostVars, store, rpcVars, wrapSeen, proxyVars, gw,
                   sigVars, reqVars,
                   lifeVars>>

\* Line 231, the call of server.GracefulStop(): the server is marked
\* stopped and its listener is closed.
GracefulStopCall ==
    /\ Running /\ pc = "gracefulStop"
    /\ closeOp' = [closeOp EXCEPT !["rpc"] = "running"]
    /\ server' = [server EXCEPT !.stopped = TRUE]
    /\ listener' = "closed"
    /\ pc' = "gracefulStopping"
    /\ UNCHANGED <<cfgVars, hostVars, store, rpcPc, rpcErr, wrapSeen,
                   proxyVars, gw, sigVars, exitVars, reqVars,
                   lifeVars>>

\* Line 231: GracefulStop returns (it has no error result).
GracefulStopReturn ==
    /\ Running /\ pc = "gracefulStopping"
    /\ closeOp' = [closeOp EXCEPT !["rpc"] = "done"]
    /\ pc' = AfterClose("rpc")
    /\ UNCHANGED <<cfgVars, hostVars, store, rpcVars, wrapSeen, proxyVars, gw,
                   sigVars, exitVars, reqVars,
                   lifeVars>>

\* Line 232, the call of n.Close().
NCloseCall ==
    /\ Running /\ pc = "nClose"
    /\ closeOp' = [closeOp EXCEPT !["host"] = "running"]
    /\ nCloseCalls' = nCloseCalls + 1
    /\ pc' = "nClosing"
    /\ UNCHANGED <<cfgVars, host, netPersistence, store, rpcVars, wrapSeen,
                   proxyVars, gw, sigVars, exitVars, reqVars,
                   lifeVars>>

\* Lines 232-234: n.Close() returns; an error is fatal.  Closing the host
\* releases what the host holds: its connections and its own persistence
\* backend.  The event store is not among them: it was constructed after
\* the host (lines 145-149) and handed to api.NewService only.
NCloseReturn ==
    /\ Running /\ pc = "nClosing"
    /\ closeOp' = [closeOp EXCEPT !["host"] = "done"]
    /\ \E ok \in BOOLEAN :
         /\ Advance(ok, AfterClose("host"), "n.Close")
         /\ host' = IF ok THEN "closed" ELSE host
         /\ handles' = IF ok THEN [handles EXCEPT !.net = "closed"]
                             ELSE handles
    /\ UNCHANGED <<cfgVars, netPersistence, nCloseCalls, store, rpcVars,
                   wrapSeen, proxyVars, gw, sigVars, created, reqVars>>

\* Line 244: os.Exit(1).  The deferred calls of main (lines 139, 143) do
\* not run: os.Exit ends the process at once.
OsExit ==
    /\ Running /\ pc = "osExit"
    /\ exited' = TRUE
    /\ exitCode' = HandleInterruptExitCode
    /\ exitCause' = "handleInterrupt"
    /\ deferredRan' = DeferredCallsRun(Deferred)
    /\ UNCHANGED <<cfgVars, pc, hostVars, store, rpcVars, wrapSeen, proxyVars,
                   gw, sigVars, closeOp, reqVars,
                   lifeVars>>

----------------------------------------------------------------------------
\* The bridge handler, lines 200-206.

Requests == [method: {"GET", "POST", "OPTIONS"},
             grpcWebContentType: BOOLEAN, acrhGrpcWeb: BOOLEAN,
             registeredEndpoint: BOOLEAN, upgradeWebsocket: BOOLEAN,
             grpcWebsocketsProto: BOOLEAN]

\* Line 192: grpcweb.WithWebsockets(true).
EnableWebsockets == TRUE

\* webrpc.IsGrpcWebRequest: a POST whose content type starts with
\* application/grpc-web.
IsGrpcWebRequest(r) == r.method = "POST" /\ r.grpcWebContentType

\* webrpc.IsAcceptableGrpcCorsRequest: an OPTIONS preflight that asks for
\* the x-grpc-web header, for an endpoint registered on the server.
IsAcceptableGrpcCorsRequest(r) ==
    r.method = "OPTIONS" /\ r.acrhGrpcWeb /\ r.registeredEndpoint

\* webrpc.IsGrpcWebSocketRequest: websockets are enabled, and the request
\* upgrades to websocket with the grpc-websockets subprotocol.
IsGrpcWebSocketRequest(r) ==
    EnableWebsockets /\ r.upgradeWebsocket /\ r.grpcWebsocketsProto

\* Lines 201-203: the condition under which webrpc.ServeHTTP is called.
ProxyRoutesNoWebsocket(r) ==
    IsGrpcWebRequest(r) \/ IsAcceptableGrpcCorsRequest(r)

ProxyRoutes(r) ==
    \/ IsGrpcWebRequest(r)
    \/ IsAcceptableGrpcCorsRequest(r)
    \/ IsGrpcWebSocketRequest(r)

\* Lines 200-206: one request served by the bridge's handler.
ProxyHandler ==
    /\ Running /\ proxyPc = "serving" /\ proxy.listener = "listening"
    /\ \E r \in Requests :
         /\ req' = r
         /\ routed' = ProxyRoutes(r)
    /\ UNCHANGED <<cfgVars, pc, hostVars, store, rpcVars, wrapSeen, proxyVars,
                   gw, sigVars, closeOp, exitVars,
                   lifeVars>>

----------------------------------------------------------------------------
Next ==
    \/ ParseFlags
    \/ ParseHostAddr
    \/ ParseApiAddr
    \/ ParseApiProxyAddr
    \/ CheckMongo
    \/ SetupLogging
    \/ ExpandBadgerRepo
    \/ ConstructNetwork
    \/ ConstructStore
    \/ NewService
    \/ NewNetService
    \/ ResolveTarget
    \/ ResolvePTarget
    \/ ListenRpc
    \/ GoRpc
    \/ WrapServer
    \/ GoProxy
    \/ NewGateway
    \/ GatewayStart
    \/ RpcRegisterApi
    \/ RpcRegisterNet
    \/ RpcServeEnter
    \/ RpcServeReturn
    \/ ProxyListen
    \/ ProxyServeReturn
    \/ Notify
    \/ BlockOnQuit
    \/ InterruptDefault
    \/ InterruptReceived
    \/ InterruptUnreceived
    \/ PrintStopping
    \/ GwCloseCall
    \/ GwCloseReturn
    \/ ProxyShutdownCall
    \/ ProxyShutdownReturn
    \/ GracefulStopCall
    \/ GracefulStopReturn
    \/ NCloseCall
    \/ NCloseReturn
    \/ OsExit

Spec == Init /\ [][Next]_vars

\* The steps of the main goroutine from the receipt of the interrupt on.
ShutdownStep ==
    \/ PrintStopping
    \/ GwCloseCall
    \/ GwCloseReturn
    \/ ProxyShutdownCall
    \/ ProxyShutdownReturn
    \/ GracefulStopCall
    \/ GracefulStopReturn
    \/ NCloseCall
    \/ NCloseReturn
    \/ OsExit

\* The runs in which the main goroutine keeps being scheduled and every
\* close operation it calls returns.
FairSpec == Spec /\ WF_vars(ShutdownStep)

\* The daemon up and serving, the main goroutine parked in <-quit: the
\* states in which the bridge handler takes requests.
ValidConfig(c) ==
    /\ c.hostAddr = "tcp" /\ c.apiAddr = "tcp" /\ c.apiProxyAddr = "tcp"
    /\ MongoConfigFatal(c.mongoUri, c.mongoDatabase) = "none"

Serving ==
    /\ cfg \in {c \in Configs : ValidConfig(c)}
    /\ pc = "parked"
    /\ parsedMongoUri = IF Len(cfg.mongoUri) # 0 THEN "url" ELSE "nil"
    /\ badgerRepo = BadgerRepoAfterExpand(parsedMongoUri, cfg.badgerRepo)
    /\ host = "open"
    /\ netPersistence = NetPersistenceChoice(parsedMongoUri, cfg.mongoUri,
                                             cfg.mongoDatabase, badgerRepo)
    /\ store = EventStoreChoice(cfg.mongoUri, cfg.mongoDatabase, badgerRepo)
    /\ nCloseCalls = 0
    /\ listener = "listening"
    /\ server = [created |-> TRUE, registered |-> {"api", "net"},
                 serve |-> TRUE, stopped |-> FALSE]
    /\ wrapSeen \in {[wrapped |-> TRUE, registered |-> rs, serve |-> sv] :
                      rs \in {{}, {"api"}, {"api", "net"}}, sv \in BOOLEAN}
    /\ (wrapSeen.serve => wrapSeen.registered = {"api", "net"})
    /\ proxy = [created |-> TRUE, listener |-> "listening",
                shutdown |-> FALSE]
    /\ gw = "started"
    /\ rpcPc = "serving"
    /\ rpcErr = NoErr
    /\ proxyPc = "serving"
    /\ proxyErr = NoErr
    /\ notified = TRUE
    /\ sigCount = 0
    /\ received = FALSE
    /\ lateSigs = 0
    /\ closeOp = [o \in CloseOps |-> "idle"]
    /\ exited = FALSE
    /\ exitCode = NoExit
    /\ exitCause = "none"
    /\ deferredRan = {}
    /\ handles = [net |-> "open", event |-> "open"]
    /\ created = <<"host", "store", "rpc", "bridge", "gateway">>

BridgeInit ==
    /\ Serving
    /\ req = NoReq
    /\ routed = FALSE

BridgeNext == ProxyHandler

\* The bridge handler alone, from the serving states.
SpecBridge == BridgeInit /\ [][BridgeNext]_vars

----------------------------------------------------------------------------
\* Properties.

Started(o) == closeOp[o] # "idle"

\* C1: after the interrupt is received the four close operations run in the
\* order gateway close, bridge shutdown, RPC graceful stop, host close: one
\* begins only when the one before it has returned, at most one is in
\* progress at any time, none begins before the interrupt is received, and
\* a run that ends at the os.Exit of handleInterrupt has completed all four.
ShutdownInOrder ==
    /\ Started("gw") => received
    /\ Started("proxy") => closeOp["gw"] = "done"
    /\ Started("rpc") => closeOp["proxy"] = "done"
    /\ Started("host") => closeOp["rpc"] = "done"
    /\ Cardinality({o \in CloseOps : closeOp[o] = "running"}) <= 1
    /\ exitCause = "handleInterrupt" => \A o \in CloseOps : closeOp[o] = "done"

\* C1 witness: one interrupt, all four close operations done, process
\* ended by handleInterrupt.
ShutdownInOrderWitness ==
    /\ sigCount = 1
    /\ exitCause = "handleInterrupt"
    /\ \A o \in CloseOps : closeOp[o] = "done"

\* C2 (as claimed): an interrupt that arrives after the first one was
\* received, while the shutdown sequence runs, ends the process at once.
SecondInterruptTerminates == lateSigs > 0 => exited

MongoUriWithoutDatabase == Len(cfg.mongoUri) # 0 /\ cfg.mongoDatabase = ""

NothingConstructed ==
    /\ host = "none" /\ netPersistence = NoBackend /\ store = NoBackend
    /\ listener = "none" /\ proxy.listener = "none" /\ ~proxy.created
    /\ gw = "none" /\ rpcPc = "none" /\ proxyPc = "none"

\* C3: with mongoUri set and mongoDatabase empty the main goroutine never
\* gets past the check of lines 77-85, where it ends with a fatal error, so
\* no host, backend or listener is ever constructed.
MongoWithoutDatabaseFailsEarly ==
    MongoUriWithoutDatabase =>
        /\ pc \in {"parse", "hostAddr", "apiAddr", "apiProxyAddr", "mongo"}
        /\ NothingConstructed
        /\ (pc = "mongo" /\ exited /\ exitCause # "sigint" =>
              /\ exitCode = LogFatalExitCode
              /\ exitCause \in {"parsing mongoUri",
                                "mongoDatabase is required with mongoUri"})

\* C3 witness: the fatal "mongoDatabase is required with mongoUri".
MongoWithoutDatabaseWitness ==
    /\ MongoUriWithoutDatabase
    /\ exited
    /\ exitCause = "mongoDatabase is required with mongoUri"

AtSignalWait == Running /\ pc \in {"recv", "parked"}

\* C4 (as claimed): at the signal-wait point the host, the RPC listener,
\* the bridge listener and the gateway are all listening.
AllListeningAtSignalWait ==
    AtSignalWait =>
        /\ host = "open"
        /\ listener = "listening"
        /\ proxy.listener = "listening"
        /\ gw = "started"

\* C4 (amended): at the signal-wait point the Network Host is constructed,
\* the RPC listener is bound and listening, the gateway has been started
\* and the bridge goroutine has been launched; the bridge listener is bound
\* exactly when that goroutine has entered ListenAndServe.
StartedAtSignalWait ==
    AtSignalWait =>
        /\ host = "open"
        /\ listener = "listening"
        /\ gw = "started"
        /\ proxy.created /\ proxyPc # "none"
        /\ (proxy.listener = "listening" <=> proxyPc = "serving")

\* C4 witness: the main goroutine parked in <-quit while the bridge
\* goroutine has not bound its listener yet.
StartedAtSignalWaitWitness ==
    /\ AtSignalWait /\ pc = "parked"
    /\ proxyPc = "start" /\ proxy.listener = "none"
    /\ listener = "listening" /\ gw = "started"

\* The process ended on the main goroutine after the interrupt was
\* received: inside the closure or at the os.Exit that follows it.
EndedInShutdownPath ==
    /\ exited /\ received
    /\ exitCause \in {"handleInterrupt", "gw.Close", "proxy.Shutdown",
                      "n.Close"}

\* C5 (as claimed): a process that ends through the interrupt-driven
\* shutdown path has closed the Network Host exactly once.
HostClosedExactlyOnce ==
    (host # "none" /\ EndedInShutdownPath) => nCloseCalls = 1

\* C6: once the interrupt is received and the close operations return, the
\* process exits; it never exits with status 0, and every exit on the
\* program's own paths (all but the default disposition of an interrupt
\* that arrives before the handler is registered) has status 1.
ExitsNonZeroAfterShutdown ==
    /\ received ~> exited
    /\ [](exited => /\ exitCode # 0
                    /\ (exitCause # "sigint" => exitCode = 1))

\* C6 witness: the process ended by the os.Exit(1) of handleInterrupt.
ExitsNonZeroWitness ==
    exited /\ exitCause = "handleInterrupt" /\ exitCode = 1

\* C7: a serve loop that returns nil or its own stopped/closed error ends
\* its goroutine without ending the process; any other error ends the
\* process with status 1; and no serve-loop fatal happens once the
\* orchestrator has stopped that server.
ServeFatalOnlyOnUnexpected ==
    /\ rpcErr \in {"nil", "ErrServerStopped"} =>
          rpcPc = "done" /\ exitCause # "serve error"
    /\ rpcErr \notin {NoErr, "nil", "ErrServerStopped"} =>
          exited /\ exitCode = 1 /\ exitCause = "serve error"
    /\ proxyErr \in {"nil", "ErrServerClosed"} =>
          proxyPc = "done" /\ exitCause # "proxy error"
    /\ proxyErr \notin {NoErr, "nil", "ErrServerClosed"} =>
          exited /\ exitCode = 1 /\ exitCause = "proxy error"
    /\ exitCause = "serve error" => ~server.stopped
    /\ exitCause = "proxy error" => ~proxy.shutdown

\* C7 witness: Serve was called after GracefulStop and returned
\* ErrServerStopped, the bridge returned ErrServerClosed, and the shutdown
\* ran to its end.
ServeStoppedWitness ==
    /\ rpcErr = "ErrServerStopped" /\ rpcPc = "done"
    /\ proxyErr = "ErrServerClosed" /\ proxyPc = "done"
    /\ exitCause = "handleInterrupt"

EmbeddedBackend ==
    [kind |-> "badger", loc |-> ExpandEnv(cfg.badgerRepo), db |-> ""]

\* C8: with an empty mongoUri, *badgerRepo holds the expanded path from the
\* branch of lines 112-118 on, and both the Network Host's persistence and
\* the event store are the embedded backend at that expanded path.
EmbeddedBackendExpanded ==
    Len(cfg.mongoUri) = 0 =>
        /\ pc \notin {"parse", "hostAddr", "apiAddr", "apiProxyAddr", "mongo",
                      "logging", "expand"}
              => badgerRepo = ExpandEnv(cfg.badgerRepo)
        /\ netPersistence # NoBackend => netPersistence = EmbeddedBackend
        /\ store # NoBackend => store = EmbeddedBackend

\* C8 witness: both backends constructed from a path that expansion
\* changes.
EmbeddedBackendWitness ==
    /\ Len(cfg.mongoUri) = 0
    /\ cfg.badgerRepo # ExpandEnv(cfg.badgerRepo)
    /\ netPersistence = EmbeddedBackend
    /\ store = EmbeddedBackend

\* C9 (as claimed): when the construction of a storage backend fails, the
\* process ends with no listener opened and no Network Host constructed
\* and left unclosed.
BackendFailureLeavesNothing ==
    exitCause \in {"network persistence", "event store"} =>
        /\ exited /\ exitCode = LogFatalExitCode
        /\ listener = "none" /\ proxy.listener = "none" /\ gw = "none"
        /\ host # "open"

RecognisedByBridge(r) ==
    \/ r.method = "POST" /\ r.grpcWebContentType
    \/ r.method = "OPTIONS" /\ r.acrhGrpcWeb /\ r.registeredEndpoint
    \/ r.upgradeWebsocket /\ r.grpcWebsocketsProto

\* C10: the bridge handler passes a request to webrpc.ServeHTTP if and only
\* if it is a bridged unary/streaming request, an acceptable preflight or a
\* socket-upgrade bridged request.
BridgeRoutesOnlyRecognised ==
    req # NoReq => (routed <=> RecognisedByBridge(req))

\* C10 witness: a socket-upgrade request routed to the bridge, being
\* neither a bridged POST nor a preflight.
BridgeRoutesWitness ==
    /\ req # NoReq /\ routed
    /\ req.method = "GET" /\ req.upgradeWebsocket /\ req.grpcWebsocketsProto

\* C11 (as claimed): a shutdown that runs to completion has closed the
\* event store handed to api.NewService.
EventStoreClosedAtShutdown ==
    exitCause = "handleInterrupt" => handles.event = "closed"

\* proxy.Shutdown returned the error of its expired one-second context.
BridgeDeadlineExpired == exitCause = "proxy.Shutdown"

\* C12 (as claimed): when the bridge's deadline expires, the process does
\* not end before the RPC server was stopped gracefully and the Network
\* Host closed.
ShutdownContinuesPastDeadline ==
    (BridgeDeadlineExpired /\ exited) =>
        /\ closeOp["rpc"] = "done"
        /\ closeOp["host"] = "done"

\* C13: an error of gw.Close() ends the process with status 1 in the step
\* in which Close returns, with none of steps 2 to 4 begun; step 2 begins
\* only when gw.Close() returned nil.
GwCloseErrorIsFatal ==
    /\ exitCause = "gw.Close" =>
          /\ exited /\ exitCode = 1
          /\ closeOp = [o \in CloseOps |-> IF o = "gw" THEN "done" ELSE "idle"]
          /\ ~proxy.shutdown /\ ~server.stopped
          /\ nCloseCalls = 0 /\ host = "open"
    /\ Started("proxy") => gw = "closed"

\* C13 witness: the process ended by the log.Fatal of line 224.
GwCloseErrorWitness ==
    exited /\ exitCause = "gw.Close" /\ gw = "started"

BothRegistered == {"api", "net"}

\* C14 (as claimed): when the bridge wraps the RPC server, and whenever it
\* serves, the RPC server is serving with both services registered.
BridgeWrapsServingServer ==
    /\ wrapSeen.wrapped =>
          wrapSeen.serve /\ wrapSeen.registered = BothRegistered
    /\ proxyPc = "serving" =>
          server.serve /\ server.registered = BothRegistered

\* C14 (amended): when the bridge wraps the RPC server, and whenever it
\* serves, the RPC server has been created, its listener bound and the
\* goroutine that registers the services and calls Serve launched; Serve
\* is entered only with both services registered.
BridgeWrapsLaunchedServer ==
    /\ (wrapSeen.wrapped \/ proxyPc # "none") =>
          server.created /\ listener # "none" /\ rpcPc # "none"
    /\ server.serve => server.registered = BothRegistered
    /\ wrapSeen.serve => wrapSeen.registered = BothRegistered

\* C14 witness: the bridge serves, wrapped around a server on which nothing
\* was registered yet, while the RPC goroutine has not reached Serve.
BridgeWrapsLaunchedWitness ==
    /\ wrapSeen.wrapped /\ wrapSeen.registered = {} /\ ~wrapSeen.serve
    /\ proxyPc = "serving" /\ ~server.serve /\ rpcPc = "register1"

IsCreated(e) == \E i \in DOMAIN created : created[i] = e

Pos(e) == CHOOSE i \in DOMAIN created : created[i] = e

\* Entity b, if it exists, was created after entity a.
Before(a, b) == IsCreated(b) => (IsCreated(a) /\ Pos(a) < Pos(b))

NoneCreatedTwice ==
    \A i, j \in DOMAIN created : created[i] = created[j] => i = j

\* The entities the shutdown closure closes, and the close of each.
Closable == {"host", "rpc", "bridge", "gateway"}

CloseOpOf(e) ==
    CASE e = "host"    -> "host"
      [] e = "rpc"     -> "rpc"
      [] e = "bridge"  -> "proxy"
      [] e = "gateway" -> "gw"

\* Of two closable entities, the close of the one created first begins
\* only when the close of the one created later has returned.
DestroyedInReverse ==
    \A a, b \in Closable :
        (IsCreated(a) /\ IsCreated(b) /\ Pos(a) < Pos(b)) =>
            (Started(CloseOpOf(a)) => closeOp[CloseOpOf(b)] = "done")

\* C15 (as claimed): the storage backend is constructed before the Network
\* Host, the host before the RPC server, the RPC server before the bridge
\* and the gateway; closes run in the reverse order; nothing is created
\* twice.
CreatedStoreFirst ==
    /\ Before("store", "host")
    /\ Before("host", "rpc")
    /\ Before("rpc", "bridge")
    /\ Before("rpc", "gateway")
    /\ DestroyedInReverse
    /\ NoneCreatedTwice

\* C15 (amended): the Network Host is constructed first, then the event
\* store, then the RPC server, then the bridge, then the gateway; the
\* gateway, the bridge, the RPC server and the host are closed in the
\* reverse of that order; nothing is created twice.
CreatedHostFirst ==
    /\ Before("host", "store")
    /\ Before("store", "rpc")
    /\ Before("rpc", "bridge")
    /\ Before("bridge", "gateway")
    /\ DestroyedInReverse
    /\ NoneCreatedTwice

\* C15 witness: all five entities created and the shutdown run to its end.
CreatedHostFirstWitness ==
    /\ Len(created) = 5
    /\ exitCause = "handleInterrupt"
    /\ \A o \in CloseOps : closeOp[o] = "done"

AddrUnparsable ==
    "bad" \in {cfg.hostAddr, cfg.apiAddr, cfg.apiProxyAddr}

AddrUnresolvable ==
    AddrUnparsable \/ "notcp" \in {cfg.apiAddr, cfg.apiProxyAddr}

\* C16 (as claimed): with an address option that cannot be resolved to a
\* listen address, nothing is ever constructed.
AddressCheckedBeforeConstruction == AddrUnresolvable => NothingConstructed

\* C16 (amended): an address option that is no multiaddr ends startup at
\* lines 63-74 with nothing constructed; an RPC or bridge address that is a
\* multiaddr without a TCP form ends it at lines 166-173, before the RPC
\* server, the bridge and the gateway exist, but with the Network Host and
\* the event store constructed.
AddressCheckedBeforeListeners ==
    /\ AddrUnparsable =>
          /\ NothingConstructed
          /\ pc \in {"parse", "hostAddr", "apiAddr", "apiProxyAddr"}
    /\ AddrUnresolvable =>
          /\ ~server.created /\ listener = "none"
          /\ ~proxy.created /\ proxy.listener = "none" /\ gw = "none"
          /\ rpcPc = "none" /\ proxyPc = "none" /\ ~notified
    /\ exitCause \in {"target", "ptarget"} =>
          /\ exited /\ exitCode = LogFatalExitCode
          /\ host = "open" /\ store # NoBackend

\* C16 witness: the fatal of line 168 on an apiAddr without a TCP form.
AddressCheckedWitness ==
    /\ cfg.apiAddr = "notcp"
    /\ exited /\ exitCause = "target"
    /\ host = "open"

\* C17 (as claimed): once signal.Notify is in effect, an interrupt sent to
\* the process is received by <-quit: none is dropped.
NoInterruptDropped == (notified /\ sigCount > 0) => received

ShutdownPcs == {"print", "gwClose", "gwClosing", "proxyShutdown",
                "proxyShuttingDown", "gracefulStop", "gracefulStopping",
                "nClose", "nClosing", "osExit"}

\* C18: the shutdown closure is entered only after an interrupt was
\* received through the registered handler, and the first close begins
\* with the host, both backends, the bound RPC listener, the launched
\* bridge goroutine and the started gateway all in place; an interrupt that
\* arrives before the handler is registered ends the process where it
\* stands, with no close begun.
ShutdownOnlyWhenStarted ==
    /\ (pc \in ShutdownPcs \/ Started("gw")) => (notified /\ received)
    /\ pc \in {"print", "gwClose", "gwClosing"} =>
          /\ host = "open"
          /\ store # NoBackend /\ netPersistence # NoBackend
          /\ handles = [net |-> "open", event |-> "open"]
          /\ server.created /\ listener = "listening"
          /\ proxy.created /\ proxyPc # "none"
          /\ gw = "started"
    /\ exitCause = "sigint" =>
          /\ ~notified /\ ~received
          /\ \A o \in CloseOps : closeOp[o] = "idle"

\* C18 witness: gw.Close() in progress.
ShutdownOnlyWhenStartedWitness ==
    Running /\ pc = "gwClosing" /\ closeOp["gw"] = "running"

\* Invocations of the host's close: the explicit one of line 232 and the
\* deferred one of line 139 if it ran.
HostCloseInvocations ==
    nCloseCalls + (IF "n.Close" \in deferredRan THEN 1 ELSE 0)

\* C19: the host's close is invoked at most once; no deferred call of main
\* ever runs, and the only invocation is the one of the shutdown closure.
HostCloseAtMostOnce ==
    /\ HostCloseInvocations <= 1
    /\ deferredRan = {}
    /\ HostCloseInvocations = 1 => Started("host")

\* C19 witness: the process ended by handleInterrupt after the explicit
\* close, with the deferred close registered and not run.
HostCloseAtMostOnceWitness ==
    /\ exited /\ exitCause = "handleInterrupt"
    /\ "n.Close" \in Deferred
    /\ HostCloseInvocations = 1

\* C20: whenever both backends are constructed they are the same variant,
\* at the same place.
BackendChoicesAgree ==
    /\ (netPersistence # NoBackend /\ store # NoBackend) =>
          /\ netPersistence.kind = store.kind
          /\ netPersistence = store
    /\ netPersistence # NoBackend =>
          (netPersistence.kind = "mongo" <=> Len(cfg.mongoUri) # 0)

\* C20 witness: both backends constructed as the external variant.
BackendChoicesAgreeWitness ==
    /\ netPersistence.kind = "mongo"
    /\ store.kind = "mongo"

====
